---- MODULE Spec2Model ----
(***************************************************************************)
(* A model of the crewplots Redis-compatible servers.                      *)
(*                                                                         *)
(*   production-redis.c  the buffered server: store, RESP decoder,         *)
(*                       dispatcher, per-connection input/output buffers   *)
(*   mini-redis.c        the unbuffered server: same store, a dispatcher   *)
(*                       with single-key DEL/EXISTS and with KEYS/FLUSHALL *)
(*                                                                         *)
(* C strings are sequences of one-character strings; "\r" and "\n" are the *)
(* two terminator bytes.  An index into a C array is kept 0-based, with -1 *)
(* for "not found", so the i-th C element is element i + 1 of a sequence.  *)
(* time(NULL) is the variable now; it is read once per dispatched command  *)
(* (a command runs in far less than the clock's one-second step).          *)
(***************************************************************************)
EXTENDS Integers, Sequences, FiniteSets, TLC

VARIABLES
    store,      \* production/mini: store[0 .. store_count-1]
    now,        \* the value time(NULL) returns
    last,       \* history: the command dispatched last, its reply, the state it ran in
    hist,       \* history: per key, what the latest command naming it was
    clients,    \* production: clients[0 .. client_count-1]
    wire,       \* per connection, the bytes its peer has still to deliver
    sent,       \* history: per connection, the commands its peer encoded
    dlog,       \* history: per connection, the commands dispatched so far
    recvd,      \* history: the last receive that dispatched, the state it ran in, its commands
    eof,        \* per connection, whether its peer has closed its end
    lastAccept, \* history: the socket accepted last, the table it met, whether it was added
    glog,       \* history: the commands dispatched on all connections, in dispatch order
    io,         \* history: per connection, the bytes queued, the bytes send took, what send returned last
    round       \* history: the sockets select reported in the last pass over the table, the slots the pass looked at

vars == <<store, now, last, hist, clients, wire, sent, dlog, recvd, eof, lastAccept, glog, io, round>>

(***************************************************************************)
(* Bounds of the model                                                     *)
(***************************************************************************)
\* capacity of the store array, scaled down from store[10000]
STORE_CAPACITY == 2
\* the clock runs from 1 to MaxTime
MaxTime == 3
\* size of a connection's input and output buffer, scaled down from 8192
BUFFER_SIZE == 64
\* size of one slot of arg_storage, scaled down from 512
ARG_SIZE == 8
\* size of key_response in mini-redis.c's KEYS, scaled down from 256
KEY_RESPONSE_SIZE == 8
\* size of the connection table, scaled down from 100
MAX_CLIENTS == 2

(***************************************************************************)
(* Program constants                                                       *)
(***************************************************************************)
MAX_ARGS == 32
MAX_KEY_SIZE == 512
MAX_VALUE_SIZE == 2048
MINI_MAX_KEY_SIZE == 256
MINI_MAX_VALUE_SIZE == 1024
MINI_BUFFER_SIZE == 4096

(***************************************************************************)
(* C library: strings and numbers                                          *)
(***************************************************************************)
CRLF == <<"\r", "\n">>

Min(a, b) == IF a < b THEN a ELSE b

\* the first n characters of s: what strncpy(dst, s, n) followed by
\* dst[n] = '\0' leaves in dst, and what snprintf(dst, n + 1, "%s", s) writes
Trunc(s, n) == SubSeq(s, 1, Min(Len(s), n))

Snprintf(size, s) == Trunc(s, size - 1)

\* toupper on the letters; every other character is left as it is
UpperOf ==
    [c \in {"a","b","c","d","e","f","g","h","i","j","k","l","m",
            "n","o","p","q","r","s","t","u","v","w","x","y","z"} |->
        CASE c = "a" -> "A" [] c = "b" -> "B" [] c = "c" -> "C" [] c = "d" -> "D"
          [] c = "e" -> "E" [] c = "f" -> "F" [] c = "g" -> "G" [] c = "h" -> "H"
          [] c = "i" -> "I" [] c = "j" -> "J" [] c = "k" -> "K" [] c = "l" -> "L"
          [] c = "m" -> "M" [] c = "n" -> "N" [] c = "o" -> "O" [] c = "p" -> "P"
          [] c = "q" -> "Q" [] c = "r" -> "R" [] c = "s" -> "S" [] c = "t" -> "T"
          [] c = "u" -> "U" [] c = "v" -> "V" [] c = "w" -> "W" [] c = "x" -> "X"
          [] c = "y" -> "Y" [] c = "z" -> "Z"]

toupper(c) == IF c \in DOMAIN UpperOf THEN UpperOf[c] ELSE c

ToUpperStr(s) == [i \in 1..Len(s) |-> toupper(s[i])]

strcasecmp_eq(s, t) == ToUpperStr(s) = ToUpperStr(t)

Digits == <<"0","1","2","3","4","5","6","7","8","9">>

IsDigit(c) == \E d \in 1..10 : Digits[d] = c

DigitVal(c) == (CHOOSE d \in 1..10 : Digits[d] = c) - 1

IsSpace(c) == c \in {" ", "\t", "\n", "\r"}

RECURSIVE AtoiDigits(_, _, _)
AtoiDigits(s, i, acc) ==
    IF i <= Len(s) /\ IsDigit(s[i])
    THEN AtoiDigits(s, i + 1, acc * 10 + DigitVal(s[i]))
    ELSE acc

RECURSIVE SkipSpace(_, _)
SkipSpace(s, i) == IF i <= Len(s) /\ IsSpace(s[i]) THEN SkipSpace(s, i + 1) ELSE i

\* atoi(s + (i - 1)): white space, an optional sign, then digits up to the
\* first character that is not one; 0 when there is no digit
AtoiAt(s, i) ==
    LET j == SkipSpace(s, i)
    IN  IF j <= Len(s) /\ s[j] = "-" THEN 0 - AtoiDigits(s, j + 1, 0)
        ELSE IF j <= Len(s) /\ s[j] = "+" THEN AtoiDigits(s, j + 1, 0)
        ELSE AtoiDigits(s, j, 0)

atoi(s) == AtoiAt(s, 1)

RECURSIVE ItoaNat(_)
ItoaNat(n) == IF n < 10 THEN <<Digits[n + 1]>> ELSE ItoaNat(n \div 10) \o <<Digits[(n % 10) + 1]>>

\* printf's %d and %ld
Itoa(n) == IF n < 0 THEN <<"-">> \o ItoaNat(0 - n) ELSE ItoaNat(n)

(***************************************************************************)
(* Reply texts                                                             *)
(***************************************************************************)
OK == <<"+","O","K","\r","\n">>
PONG == <<"+","P","O","N","G","\r","\n">>
NullBulk == <<"$","-","1","\r","\n">>
EmptyArray == <<"*","0","\r","\n">>

\* "$%ld\r\n%s\r\n"
BulkFormat(s) == <<"$">> \o Itoa(Len(s)) \o CRLF \o s \o CRLF

\* ":%d\r\n"
IntFormat(n) == <<":">> \o Itoa(n) \o CRLF

\* "*%d\r\n"
ArrayFormat(n) == <<"*">> \o Itoa(n) \o CRLF

WrongArgs(verb) ==
    <<"-","E","R","R"," ","w","r","o","n","g"," ","n","u","m","b","e","r"," ","o","f"," ",
      "a","r","g","u","m","e","n","t","s"," ","f","o","r"," ","'">>
    \o verb \o <<"'"," ","c","o","m","m","a","n","d","\r","\n">>

UnknownCommand(cmd) ==
    <<"-","E","R","R"," ","u","n","k","n","o","w","n"," ","c","o","m","m","a","n","d"," ","'">>
    \o cmd \o <<"'","\r","\n">>

InfoText ==
    <<"#"," ","S","e","r","v","e","r","\r","\n","r","e","d","i","s","_","v","e","r","s","i","o","n",
      ":","7",".","0",".","0","\r","\n","r","e","d","i","s","_","m","o","d","e",":","s","t","a","n",
      "d","a","l","o","n","e","\r","\n","t","c","p","_","p","o","r","t",":","6","3","7","9","\r","\n">>

\* the verbs, as process_command compares them
PING == <<"P","I","N","G">>
SET == <<"S","E","T">>
GET == <<"G","E","T">>
DEL == <<"D","E","L">>
EXISTS == <<"E","X","I","S","T","S">>
KEYS == <<"K","E","Y","S">>
FLUSHALL == <<"F","L","U","S","H","A","L","L">>
FLUSHDB == <<"F","L","U","S","H","D","B">>
AUTH == <<"A","U","T","H">>
SELECT == <<"S","E","L","E","C","T">>
INFO == <<"I","N","F","O">>
CLIENT == <<"C","L","I","E","N","T">>
COMMAND == <<"C","O","M","M","A","N","D">>
QUIT == <<"Q","U","I","T">>
EX == <<"E","X">>
SETNAME == <<"S","E","T","N","A","M","E">>
LIST == <<"L","I","S","T">>
GETNAME == <<"G","E","T","N","A","M","E">>

(***************************************************************************)
(* production-redis.c: the store                                           *)
(***************************************************************************)
\* memmove(&store[i], &store[i+1], ...); store_count--
RemoveAt(st, i) == SubSeq(st, 1, i) \o SubSeq(st, i + 2, Len(st))

\* the first index whose key compares equal, -1 when there is none
FirstMatch(st, key) ==
    IF \E i \in 1..Len(st) : st[i].key = key
    THEN (CHOOSE i \in 1..Len(st) : st[i].key = key /\ \A j \in 1..(i - 1) : st[j].key # key) - 1
    ELSE -1

\* find_key comparing with < : an entry is still live in its last second
find_key_late(st, key, t) ==
    LET i == FirstMatch(st, key)
    IN  IF i < 0 THEN [idx |-> -1, store |-> st]
        ELSE IF st[i + 1].ttl > 0 /\ st[i + 1].ttl < t
             THEN [idx |-> -1, store |-> RemoveAt(st, i)]
             ELSE [idx |-> i, store |-> st]

\* find_key reporting an expired entry as absent without removing it
find_key_keep(st, key, t) ==
    LET i == FirstMatch(st, key)
    IN  IF i < 0 THEN [idx |-> -1, store |-> st]
        ELSE IF st[i + 1].ttl > 0 /\ st[i + 1].ttl <= t
             THEN [idx |-> -1, store |-> st]
             ELSE [idx |-> i, store |-> st]

\* find_key dropping every expired entry of the store on its way
find_key_sweep(st, key, t) ==
    LET swept == SelectSeq(st, LAMBDA e : ~(e.ttl > 0 /\ e.ttl <= t))
    IN  [idx |-> FirstMatch(swept, key), store |-> swept]

find_key(st, key, t) ==
    LET i == FirstMatch(st, key)
    IN  IF i < 0 THEN [idx |-> -1, store |-> st]
        ELSE IF st[i + 1].ttl > 0 /\ st[i + 1].ttl <= t
             THEN [idx |-> -1, store |-> RemoveAt(st, i)]
             ELSE [idx |-> i, store |-> st]

Expiry(ttl_seconds, t) == IF ttl_seconds > 0 THEN t + ttl_seconds ELSE 0

\* set_key that appends without looking the key up
set_key_append(st, key, value, ttl_seconds, t) ==
    IF Len(st) < STORE_CAPACITY
    THEN Append(st, [key |-> Trunc(key, MAX_KEY_SIZE - 1),
                     value |-> Trunc(value, MAX_VALUE_SIZE - 1),
                     ttl |-> Expiry(ttl_seconds, t)])
    ELSE st

\* set_key that replaces an existing entry by a new one at the end
set_key_move(st, key, value, ttl_seconds, t) ==
    LET f == find_key(st, key, t)
        rest == IF f.idx >= 0 THEN RemoveAt(f.store, f.idx) ELSE f.store
    IN  IF Len(rest) < STORE_CAPACITY
        THEN Append(rest, [key |-> Trunc(key, MAX_KEY_SIZE - 1),
                           value |-> Trunc(value, MAX_VALUE_SIZE - 1),
                           ttl |-> Expiry(ttl_seconds, t)])
        ELSE rest

\* set_key that overwrites the value of an existing entry and keeps its expiry
set_key_keepttl(st, key, value, ttl_seconds, t) ==
    LET f == find_key(st, key, t)
    IN  IF f.idx >= 0
        THEN [f.store EXCEPT ![f.idx + 1].value = Trunc(value, MAX_VALUE_SIZE - 1)]
        ELSE IF Len(f.store) < STORE_CAPACITY
             THEN Append(f.store, [key |-> Trunc(key, MAX_KEY_SIZE - 1),
                                   value |-> Trunc(value, MAX_VALUE_SIZE - 1),
                                   ttl |-> Expiry(ttl_seconds, t)])
             ELSE f.store

\* set_key that makes room for a new key by dropping the oldest entry
set_key_evict(st, key, value, ttl_seconds, t) ==
    LET f == find_key(st, key, t)
        new == [key |-> Trunc(key, MAX_KEY_SIZE - 1),
                value |-> Trunc(value, MAX_VALUE_SIZE - 1),
                ttl |-> Expiry(ttl_seconds, t)]
    IN  IF f.idx >= 0
        THEN [f.store EXCEPT ![f.idx + 1].value = Trunc(value, MAX_VALUE_SIZE - 1),
                             ![f.idx + 1].ttl = Expiry(ttl_seconds, t)]
        ELSE IF Len(f.store) < STORE_CAPACITY
             THEN Append(f.store, new)
             ELSE Append(RemoveAt(f.store, 0), new)

set_key(st, key, value, ttl_seconds, t) ==
    LET f == find_key(st, key, t)
    IN  IF f.idx >= 0
        THEN [f.store EXCEPT ![f.idx + 1].value = Trunc(value, MAX_VALUE_SIZE - 1),
                             ![f.idx + 1].ttl = Expiry(ttl_seconds, t)]
        ELSE IF Len(f.store) < STORE_CAPACITY
             THEN Append(f.store, [key |-> Trunc(key, MAX_KEY_SIZE - 1),
                                   value |-> Trunc(value, MAX_VALUE_SIZE - 1),
                                   ttl |-> Expiry(ttl_seconds, t)])
             ELSE f.store

\* value: the string returned, meaningful when found
get_key(st, key, t) ==
    LET f == find_key(st, key, t)
    IN  [found |-> f.idx >= 0,
         value |-> IF f.idx >= 0 THEN f.store[f.idx + 1].value ELSE <<>>,
         store |-> f.store]

\* delete_key removing the entry after the one found
delete_key_next(st, key, t) ==
    LET f == find_key(st, key, t)
    IN  IF f.idx >= 0
        THEN [ret |-> 1, store |-> RemoveAt(f.store, f.idx + 1)]
        ELSE [ret |-> 0, store |-> f.store]

delete_key(st, key, t) ==
    LET f == find_key(st, key, t)
    IN  IF f.idx >= 0
        THEN [ret |-> 1, store |-> RemoveAt(f.store, f.idx)]
        ELSE [ret |-> 0, store |-> f.store]

(***************************************************************************)
(* production-redis.c: the dispatcher                                      *)
(*                                                                         *)
(* process_command returns the store it leaves and reply, the string it    *)
(* hands to queue_response (every branch hands over exactly one).          *)
(***************************************************************************)
RECURSIVE DelLoop(_, _, _, _, _)
DelLoop(st, args, i, t, deleted) ==
    IF i > Len(args) THEN [store |-> st, count |-> deleted]
    ELSE LET d == delete_key(st, args[i], t)
         IN  DelLoop(d.store, args, i + 1, t, deleted + d.ret)

RECURSIVE ExistsLoop(_, _, _, _, _)
ExistsLoop(st, args, i, t, exists) ==
    IF i > Len(args) THEN [store |-> st, count |-> exists]
    ELSE LET f == find_key(st, args[i], t)
         IN  ExistsLoop(f.store, args, i + 1, t, IF f.idx >= 0 THEN exists + 1 ELSE exists)

ClientReply(args) ==
    IF Len(args) >= 2
    THEN LET subcmd == ToUpperStr(args[2])
         IN  IF subcmd = SETNAME THEN OK
             ELSE IF subcmd = LIST THEN EmptyArray
             ELSE IF subcmd = GETNAME THEN NullBulk
             ELSE OK
    ELSE WrongArgs(<<"c","l","i","e","n","t">>)

process_command(st, t, args) ==
    LET argc == Len(args)
        cmd == ToUpperStr(args[1])
    IN  IF cmd = PING
        THEN [store |-> st,
              reply |-> IF argc > 1 THEN Snprintf(1024, BulkFormat(args[2])) ELSE PONG]
        ELSE IF cmd = SET
        THEN IF argc >= 3
             THEN LET ttl == IF argc >= 5 /\ strcasecmp_eq(args[4], EX) THEN atoi(args[5]) ELSE 0
                  IN  [store |-> set_key(st, args[2], args[3], ttl, t), reply |-> OK]
             ELSE [store |-> st, reply |-> WrongArgs(<<"s","e","t">>)]
        ELSE IF cmd = GET
        THEN IF argc >= 2
             THEN LET g == get_key(st, args[2], t)
                  IN  [store |-> g.store,
                       reply |-> IF g.found THEN Snprintf(2048, BulkFormat(g.value)) ELSE NullBulk]
             ELSE [store |-> st, reply |-> WrongArgs(<<"g","e","t">>)]
        ELSE IF cmd = DEL
        THEN IF argc >= 2
             THEN LET d == DelLoop(st, args, 2, t, 0)
                  IN  [store |-> d.store, reply |-> Snprintf(64, IntFormat(d.count))]
             ELSE [store |-> st, reply |-> WrongArgs(<<"d","e","l">>)]
        ELSE IF cmd = EXISTS
        THEN IF argc >= 2
             THEN LET e == ExistsLoop(st, args, 2, t, 0)
                  IN  [store |-> e.store, reply |-> Snprintf(64, IntFormat(e.count))]
             ELSE [store |-> st, reply |-> WrongArgs(<<"e","x","i","s","t","s">>)]
        ELSE IF cmd = AUTH THEN [store |-> st, reply |-> OK]
        ELSE IF cmd = SELECT THEN [store |-> st, reply |-> OK]
        ELSE IF cmd = INFO THEN [store |-> st, reply |-> Snprintf(512, BulkFormat(InfoText))]
        ELSE IF cmd = CLIENT THEN [store |-> st, reply |-> ClientReply(args)]
        ELSE IF cmd = COMMAND THEN [store |-> st, reply |-> EmptyArray]
        ELSE IF cmd = QUIT THEN [store |-> st, reply |-> OK]
        ELSE [store |-> st, reply |-> Snprintf(256, UnknownCommand(cmd))]

(***************************************************************************)
(* production-redis.c: the decoder                                         *)
(*                                                                         *)
(* buffer is input_buffer[0 .. buffer_len-1]; C index i is element i + 1.  *)
(* A failed parse is argc = -1 with consumed = 0.                          *)
(***************************************************************************)
ParseFail == [argc |-> -1, args |-> <<>>, consumed |-> 0]

\* the first i in from .. buffer_len-2 with buffer[i] = '\r' and
\* buffer[i+1] = '\n', or -1
FindCRLF(buffer, from) ==
    LET hits == {i \in from..(Len(buffer) - 2) : buffer[i + 1] = "\r" /\ buffer[i + 2] = "\n"}
    IN  IF hits = {} THEN -1 ELSE CHOOSE i \in hits : \A j \in hits : i <= j

RECURSIVE ParseArgs(_, _, _, _)
ParseArgs(buffer, pos, remaining, args) ==
    IF remaining = 0 THEN [argc |-> Len(args), args |-> args, consumed |-> pos]
    ELSE IF pos >= Len(buffer) \/ buffer[pos + 1] # "$" THEN ParseFail
    ELSE LET len_end == FindCRLF(buffer, pos + 1)
             arg_len == AtoiAt(buffer, pos + 2)
             data == len_end + 2
         IN  IF len_end = -1 THEN ParseFail
             ELSE IF arg_len < 0 THEN ParseFail
             ELSE IF data + arg_len + 2 > Len(buffer) THEN ParseFail
             ELSE IF arg_len >= ARG_SIZE THEN ParseFail
             ELSE ParseArgs(buffer, data + arg_len + 2, remaining - 1,
                            Append(args, SubSeq(buffer, data + 1, data + arg_len)))

\* parse_resp_command leaving the terminator of the last argument out of consumed
parse_resp_command_short(buffer, max_args) ==
    IF Len(buffer) < 4 \/ buffer[1] # "*" THEN ParseFail
    ELSE LET header_end == FindCRLF(buffer, 1)
             argc == AtoiAt(buffer, 2)
         IN  IF header_end = -1 THEN ParseFail
             ELSE IF argc <= 0 \/ argc > max_args THEN ParseFail
             ELSE LET p == ParseArgs(buffer, header_end + 2, argc, <<>>)
                  IN  IF p.argc > 0 THEN [p EXCEPT !.consumed = @ - 2] ELSE p

parse_resp_command(buffer, max_args) ==
    IF Len(buffer) < 4 \/ buffer[1] # "*" THEN ParseFail
    ELSE LET header_end == FindCRLF(buffer, 1)
             argc == AtoiAt(buffer, 2)
         IN  IF header_end = -1 THEN ParseFail
             ELSE IF argc <= 0 \/ argc > max_args THEN ParseFail
             ELSE ParseArgs(buffer, header_end + 2, argc, <<>>)

(***************************************************************************)
(* production-redis.c: connections                                         *)
(*                                                                         *)
(* input_len is Len(input_buffer) and output_len is Len(output_buffer).    *)
(***************************************************************************)
NewClient(fd) == [fd |-> fd, input_buffer |-> <<>>, output_buffer |-> <<>>, output_sent |-> 0]

\* queue_response appending whatever the room of the output buffer
queue_response_always(client, data) == [client EXCEPT !.output_buffer = @ \o data]

queue_response(client, data) ==
    IF Len(client.output_buffer) + Len(data) < BUFFER_SIZE
    THEN [client EXCEPT !.output_buffer = @ \o data]
    ELSE client

\* handle_client_data running every command of a receive on the store the
\* receive started with
RECURSIVE handle_client_data_stale(_, _, _, _)
handle_client_data_stale(client, st, t, log) ==
    IF Len(client.input_buffer) > 0
    THEN LET p == parse_resp_command(client.input_buffer, MAX_ARGS)
         IN  IF p.argc > 0
             THEN LET r == process_command(st, t, p.args)
                      queued == queue_response(client, r.reply)
                      rest == handle_client_data_stale(
                                  [queued EXCEPT !.input_buffer =
                                      SubSeq(@, p.consumed + 1, Len(@))],
                                  st, t,
                                  Append(log, [args |-> p.args, reply |-> r.reply,
                                      consumed |-> p.consumed,
                                      len |-> Len(client.input_buffer)]))
                  IN  [rest EXCEPT !.store = IF Len(rest.log) = Len(log) + 1 THEN r.store ELSE @]
             ELSE [client |-> client, store |-> st, log |-> log]
    ELSE [client |-> client, store |-> st, log |-> log]

\* log: the commands dispatched, each with its reply
\* handle_client_data emptying an input buffer it cannot decode
RECURSIVE handle_client_data_drop(_, _, _, _)
handle_client_data_drop(client, st, t, log) ==
    IF Len(client.input_buffer) > 0
    THEN LET p == parse_resp_command(client.input_buffer, MAX_ARGS)
         IN  IF p.argc > 0
             THEN LET r == process_command(st, t, p.args)
                      queued == queue_response(client, r.reply)
                  IN  handle_client_data_drop(
                          [queued EXCEPT !.input_buffer =
                              SubSeq(@, p.consumed + 1, Len(@))],
                          r.store, t,
                          Append(log, [args |-> p.args, reply |-> r.reply,
                                      consumed |-> p.consumed,
                                      len |-> Len(client.input_buffer)]))
             ELSE [client |-> [client EXCEPT !.input_buffer = <<>>], store |-> st, log |-> log]
    ELSE [client |-> client, store |-> st, log |-> log]

RECURSIVE handle_client_data(_, _, _, _)
handle_client_data(client, st, t, log) ==
    IF Len(client.input_buffer) > 0
    THEN LET p == parse_resp_command(client.input_buffer, MAX_ARGS)
         IN  IF p.argc > 0
             THEN LET r == process_command(st, t, p.args)
                      queued == queue_response(client, r.reply)
                  IN  handle_client_data(
                          [queued EXCEPT !.input_buffer =
                              SubSeq(@, p.consumed + 1, Len(@))],
                          r.store, t,
                          Append(log, [args |-> p.args, reply |-> r.reply,
                                      consumed |-> p.consumed,
                                      len |-> Len(client.input_buffer)]))
             ELSE [client |-> client, store |-> st, log |-> log]
    ELSE [client |-> client, store |-> st, log |-> log]

\* flush_client_output that leaves a drained buffer as it is
flush_client_output_keep(client, accepted) ==
    IF Len(client.output_buffer) > client.output_sent
    THEN IF accepted > 0
         THEN [client EXCEPT !.output_sent = @ + accepted]
         ELSE client
    ELSE client

\* flush_client_output that moves output_sent one byte too far after a partial send
flush_client_output_skip(client, accepted) ==
    IF Len(client.output_buffer) > client.output_sent
    THEN IF accepted > 0
         THEN IF client.output_sent + accepted >= Len(client.output_buffer)
              THEN [client EXCEPT !.output_buffer = <<>>, !.output_sent = 0]
              ELSE [client EXCEPT !.output_sent = @ + accepted + 1]
         ELSE client
    ELSE client

flush_client_output(client, accepted) ==
    IF Len(client.output_buffer) > client.output_sent
    THEN IF accepted > 0
         THEN IF client.output_sent + accepted >= Len(client.output_buffer)
              THEN [client EXCEPT !.output_buffer = <<>>, !.output_sent = 0]
              ELSE [client EXCEPT !.output_sent = @ + accepted]
         ELSE client
    ELSE client

(***************************************************************************)
(* mini-redis.c: the store and the dispatcher                              *)
(*                                                                         *)
(* mini_process_command is process_command from the point where            *)
(* parse_resp_array has returned argc >= 1 and the arguments; reply is the *)
(* concatenation of the strings it hands to send_response, in order.       *)
(***************************************************************************)
mini_find_key(st, key, t) ==
    LET i == FirstMatch(st, key)
    IN  IF i < 0 THEN [idx |-> -1, store |-> st]
        ELSE IF st[i + 1].ttl > 0 /\ st[i + 1].ttl < t
             THEN [idx |-> -1, store |-> RemoveAt(st, i)]
             ELSE [idx |-> i, store |-> st]

mini_set_key(st, key, value, ttl, t) ==
    LET f == mini_find_key(st, key, t)
    IN  IF f.idx >= 0
        THEN [f.store EXCEPT ![f.idx + 1].value = Trunc(value, MINI_MAX_VALUE_SIZE - 1),
                             ![f.idx + 1].ttl = Expiry(ttl, t)]
        ELSE IF Len(f.store) < STORE_CAPACITY
             THEN Append(f.store, [key |-> Trunc(key, MINI_MAX_KEY_SIZE - 1),
                                   value |-> Trunc(value, MINI_MAX_VALUE_SIZE - 1),
                                   ttl |-> Expiry(ttl, t)])
             ELSE f.store

mini_get_key(st, key, t) ==
    LET f == mini_find_key(st, key, t)
    IN  [found |-> f.idx >= 0,
         value |-> IF f.idx >= 0 THEN f.store[f.idx + 1].value ELSE <<>>,
         store |-> f.store]

mini_exists_key(st, key, t) ==
    LET f == mini_find_key(st, key, t)
    IN  [ret |-> IF f.idx >= 0 THEN 1 ELSE 0, store |-> f.store]

mini_delete_key(st, key, t) ==
    LET f == mini_find_key(st, key, t)
    IN  IF f.idx >= 0
        THEN [ret |-> 1, store |-> RemoveAt(f.store, f.idx)]
        ELSE [ret |-> 0, store |-> f.store]

\* strstr(s, pattern) != NULL
strstr(s, pattern) ==
    \E i \in 0..(Len(s) - Len(pattern)) : SubSeq(s, i + 1, i + Len(pattern)) = pattern

Star == <<"*">>

KeysMatch(key, pattern) == pattern = Star \/ strstr(key, pattern)

RECURSIVE KeysCount(_, _, _)
KeysCount(st, pattern, i) ==
    IF i > Len(st) THEN 0
    ELSE (IF KeysMatch(st[i].key, pattern) THEN 1 ELSE 0) + KeysCount(st, pattern, i + 1)

RECURSIVE KeysList(_, _, _)
KeysList(st, pattern, i) ==
    IF i > Len(st) THEN <<>>
    ELSE (IF KeysMatch(st[i].key, pattern)
          THEN Snprintf(KEY_RESPONSE_SIZE, BulkFormat(st[i].key)) ELSE <<>>)
         \o KeysList(st, pattern, i + 1)

MiniInfoText ==
    <<"#"," ","S","e","r","v","e","r","\r","\n","r","e","d","i","s","_","v","e","r","s","i","o","n",
      ":","7",".","0",".","0","\r","\n","r","e","d","i","s","_","m","o","d","e",":","s","t","a","n",
      "d","a","l","o","n","e","\r","\n">>

mini_process_command(st, t, args) ==
    LET argc == Len(args)
        cmd == ToUpperStr(args[1])
    IN  IF cmd = PING THEN [store |-> st, reply |-> PONG]
        ELSE IF cmd = AUTH THEN [store |-> st, reply |-> OK]
        ELSE IF cmd = SET
        THEN IF argc >= 3
             THEN LET ttl == IF argc >= 5 /\ strcasecmp_eq(args[4], EX) THEN atoi(args[5]) ELSE 0
                  IN  [store |-> mini_set_key(st, args[2], args[3], ttl, t), reply |-> OK]
             ELSE [store |-> st, reply |-> WrongArgs(<<"s","e","t">>)]
        ELSE IF cmd = GET
        THEN IF argc >= 2
             THEN LET g == mini_get_key(st, args[2], t)
                  IN  [store |-> g.store,
                       reply |-> IF g.found THEN Snprintf(MINI_BUFFER_SIZE, BulkFormat(g.value))
                                 ELSE NullBulk]
             ELSE [store |-> st, reply |-> WrongArgs(<<"g","e","t">>)]
        ELSE IF cmd = EXISTS
        THEN IF argc >= 2
             THEN LET e == mini_exists_key(st, args[2], t)
                  IN  [store |-> e.store, reply |-> Snprintf(64, IntFormat(e.ret))]
             ELSE [store |-> st, reply |-> WrongArgs(<<"e","x","i","s","t","s">>)]
        ELSE IF cmd = DEL
        THEN IF argc >= 2
             THEN LET d == mini_delete_key(st, args[2], t)
                  IN  [store |-> d.store, reply |-> Snprintf(64, IntFormat(d.ret))]
             ELSE [store |-> st, reply |-> WrongArgs(<<"d","e","l">>)]
        ELSE IF cmd = FLUSHALL \/ cmd = FLUSHDB THEN [store |-> <<>>, reply |-> OK]
        ELSE IF cmd = QUIT THEN [store |-> st, reply |-> OK]
        ELSE IF cmd = KEYS
        THEN LET pattern == IF argc >= 2 THEN args[2] ELSE Star
             IN  [store |-> st,
                  reply |-> Snprintf(MINI_BUFFER_SIZE, ArrayFormat(KeysCount(st, pattern, 1)))
                            \o KeysList(st, pattern, 1)]
        ELSE IF cmd = SELECT THEN [store |-> st, reply |-> OK]
        ELSE IF cmd = INFO THEN [store |-> st, reply |-> Snprintf(512, BulkFormat(MiniInfoText))]
        ELSE IF cmd = CLIENT
        THEN [store |-> st,
              reply |-> IF argc >= 2 /\ strcasecmp_eq(args[2], LIST) THEN EmptyArray ELSE OK]
        ELSE IF cmd = COMMAND THEN [store |-> st, reply |-> EmptyArray]
        ELSE [store |-> st, reply |-> Snprintf(256, UnknownCommand(cmd))]

(***************************************************************************)
(* The dispatcher under a bounded set of commands                          *)
(***************************************************************************)
Keys == {<<"a">>, <<"b">>, <<"a","b">>}
Values == {<<"x">>, <<"y">>}

KeyLists ==
    {<<k>> : k \in Keys}
    \cup {<<<<"a">>, <<"b">>>>, <<<<"b">>, <<"b">>>>, <<<<"a","b">>, <<"a">>, <<"a","b">>>>}

SetCommands ==
    {<<SET, k, v>> : k \in Keys, v \in Values}
    \cup {<<<<"s","e","t">>, k, <<"x">>, <<"e","x">>, <<"1">>>> : k \in Keys}
    \cup {<<SET, <<"a">>, <<"y">>, EX, <<"0">>>>, <<SET, <<"b">>, <<"y">>, <<"P","X">>, <<"1">>>>}

GetCommands == {<<GET, k>> : k \in Keys}

DelCommands == {<<DEL>> \o ks : ks \in KeyLists}

ExistsCommands == {<<EXISTS>> \o ks : ks \in KeyLists}

OtherCommands == {<<GET>>, <<SET, <<"a">>>>, <<<<"F","O","O">>, <<"a">>>>}

Commands == SetCommands \cup GetCommands \cup DelCommands \cup ExistsCommands \cup OtherCommands

\* SET key value ..., as process_command accepts it
IsSet(args) == Len(args) >= 3 /\ ToUpperStr(args[1]) = SET
HasEX(args) == Len(args) >= 5 /\ strcasecmp_eq(args[4], EX)
IsGet(args) == Len(args) >= 2 /\ ToUpperStr(args[1]) = GET
IsDel(args) == Len(args) >= 2 /\ ToUpperStr(args[1]) = DEL
IsExists(args) == Len(args) >= 2 /\ ToUpperStr(args[1]) = EXISTS

\* the command names key k as one of the keys it acts on
Naming(args, k) ==
    \/ (IsSet(args) \/ IsGet(args)) /\ args[2] = k
    \/ (IsDel(args) \/ IsExists(args)) /\ \E i \in 2..Len(args) : args[i] = k

HasEntry(st, k) == \E i \in 1..Len(st) : st[i].key = k

IsLive(e, t) == e.ttl = 0 \/ e.ttl > t

NoHist == [set |-> <<>>, room |-> FALSE, deleted |-> FALSE]

\* what the command makes of the history of key k
HistAfter(h, args, k, st) ==
    IF ~Naming(args, k) THEN h
    ELSE [set |-> IF IsSet(args) /\ ~HasEX(args) THEN <<args[3]>> ELSE <<>>,
          room |-> IsSet(args) /\ (HasEntry(st, k) \/ Len(st) < STORE_CAPACITY),
          deleted |-> IF IsDel(args) THEN TRUE ELSE IF IsSet(args) THEN FALSE ELSE h.deleted]

net == <<clients, wire, sent, dlog, recvd, eof, lastAccept, glog, io, round>>

NoIO == [queued |-> <<>>, handed |-> <<>>, ret |-> 0]

NoRound == [readfds |-> {}, closing |-> {}, writefds |-> {}, handled |-> <<>>]

NoAccept == [fd |-> 0, pre |-> <<>>, added |-> FALSE]

NoReceive == [i |-> 0, data |-> <<>>, pre |-> <<>>, store |-> <<>>, t |-> 0, log |-> <<>>]

NoCommand == [args |-> <<>>, reply |-> <<>>, pre |-> <<>>, t |-> 0, hist |-> [k \in Keys |-> NoHist]]

Init ==
    /\ store = <<>>
    /\ now = 1
    /\ last = NoCommand
    /\ hist = [k \in Keys |-> NoHist]
    /\ clients = <<>>
    /\ wire = <<>>
    /\ sent = <<>>
    /\ dlog = <<>>
    /\ recvd = NoReceive
    /\ eof = <<>>
    /\ lastAccept = NoAccept
    /\ glog = <<>>
    /\ io = <<>>
    /\ round = NoRound

\* one command is decoded and handed to process_command
Dispatch(args) ==
    LET r == process_command(store, now, args)
    IN  /\ store' = r.store
        /\ last' = [args |-> args, reply |-> r.reply, pre |-> store, t |-> now, hist |-> hist]
        /\ UNCHANGED <<now, hist, net>>

\* a second passes
Tick ==
    /\ now < MaxTime
    /\ now' = now + 1
    /\ UNCHANGED <<store, last, hist, net>>

Next ==
    \/ \E args \in Commands : Dispatch(args)
    \/ Tick

Spec == Init /\ [][Next]_vars

(***************************************************************************)
(* The same dispatcher with the per-key history kept                       *)
(***************************************************************************)
HistCommands ==
    {<<SET, <<"a">>, v>> : v \in Values}
    \cup {<<SET, <<"b">>, <<"x">>>>, <<SET, <<"a","b">>, <<"y">>>>, <<SET, <<"a">>, <<"x">>, EX, <<"1">>>>}
    \cup GetCommands
    \cup {<<DEL, k>> : k \in Keys} \cup {<<DEL, <<"a">>, <<"b">>>>}
    \cup {<<EXISTS, k>> : k \in Keys}

DispatchHist(args) ==
    LET r == process_command(store, now, args)
    IN  /\ store' = r.store
        /\ last' = [args |-> args, reply |-> r.reply, pre |-> store, t |-> now,
                    hist |-> [k \in Keys |-> IF Naming(args, k) THEN hist[k] ELSE NoHist]]
        /\ hist' = [k \in Keys |-> HistAfter(hist[k], args, k, store)]
        /\ UNCHANGED <<now, net>>

NextHist ==
    \/ \E args \in HistCommands : DispatchHist(args)
    \/ Tick

SpecHist == Init /\ [][NextHist]_vars

(***************************************************************************)
(* mini-redis.c's dispatcher under a bounded set of commands               *)
(***************************************************************************)
MiniCommands ==
    SetCommands \cup GetCommands \cup DelCommands \cup ExistsCommands
    \cup {<<KEYS>>, <<KEYS, Star>>, <<KEYS, <<"a">>>>, <<<<"k","e","y","s">>, <<"b">>>>, <<FLUSHALL>>}

DispatchMini(args) ==
    LET r == mini_process_command(store, now, args)
    IN  /\ store' = r.store
        /\ last' = [args |-> args, reply |-> r.reply, pre |-> store, t |-> now, hist |-> hist]
        /\ UNCHANGED <<now, hist, net>>

NextMini ==
    \/ \E args \in MiniCommands : DispatchMini(args)
    \/ Tick

SpecMini == Init /\ [][NextMini]_vars

(***************************************************************************)
(* production-redis.c's connections under a bounded set of peers           *)
(*                                                                         *)
(* A peer connects, writes the RESP encoding of a script (one or two       *)
(* commands) and the network delivers it in chunks of any size.            *)
(***************************************************************************)
Peers == {1}

LongValue == <<"l","o","n","g","l","o","n","g","l">>

NetCommands ==
    {<<SET, <<"a">>, <<"x">>>>, <<SET, <<"a">>, SubSeq(LongValue, 1, ARG_SIZE)>>,
     <<GET, <<"a">>>>, <<GET>>}

Scripts ==
    {<<c>> : c \in NetCommands}
    \cup {<<<<SET, <<"a">>, <<"x">>>>, <<GET, <<"a">>>>>>,
          <<<<GET>>, <<GET>>>>,
          <<<<SET, <<"a">>, SubSeq(LongValue, 1, ARG_SIZE)>>, <<GET>>>>}

\* the encoding a RESP client writes: "*<argc>\r\n" and per argument "$<len>\r\n<bytes>\r\n"
RECURSIVE EncodeArgs(_, _)
EncodeArgs(args, i) ==
    IF i > Len(args) THEN <<>>
    ELSE <<"$">> \o Itoa(Len(args[i])) \o CRLF \o args[i] \o CRLF \o EncodeArgs(args, i + 1)

EncodeCommand(args) == <<"*">> \o Itoa(Len(args)) \o CRLF \o EncodeArgs(args, 1)

RECURSIVE EncodeScript(_, _)
EncodeScript(cmds, n) ==
    IF n = 0 THEN <<>> ELSE EncodeScript(cmds, n - 1) \o EncodeCommand(cmds[n])

EncodeAll(cmds) == EncodeScript(cmds, Len(cmds))

\* the room of the input buffer without the byte kept for the terminator
Space_full(client) == BUFFER_SIZE - Len(client.input_buffer)

Space(client) == BUFFER_SIZE - Len(client.input_buffer) - 1

\* the accept path admitting a socket while client_count <= MAX_CLIENTS
Accept_late(fd, script) ==
    /\ \A i \in 1..Len(clients) : clients[i].fd # fd
    /\ IF Len(clients) <= MAX_CLIENTS
       THEN /\ clients' = Append(clients, NewClient(fd))
            /\ wire' = Append(wire, EncodeAll(script))
            /\ sent' = Append(sent, script)
            /\ dlog' = Append(dlog, <<>>)
            /\ eof' = Append(eof, FALSE)
            /\ io' = Append(io, NoIO)
       ELSE UNCHANGED <<clients, wire, sent, dlog, eof, io>>
    /\ lastAccept' = [fd |-> fd, pre |-> clients, added |-> Len(clients) <= MAX_CLIENTS]
    /\ UNCHANGED <<store, now, last, hist, recvd, glog, round>>

\* main, accept path: a peer connects
Accept(fd, script) ==
    /\ \A i \in 1..Len(clients) : clients[i].fd # fd
    /\ IF Len(clients) < MAX_CLIENTS
       THEN /\ clients' = Append(clients, NewClient(fd))
            /\ wire' = Append(wire, EncodeAll(script))
            /\ sent' = Append(sent, script)
            /\ dlog' = Append(dlog, <<>>)
            /\ eof' = Append(eof, FALSE)
            /\ io' = Append(io, NoIO)
       ELSE UNCHANGED <<clients, wire, sent, dlog, eof, io>>
    /\ lastAccept' = [fd |-> fd, pre |-> clients, added |-> Len(clients) < MAX_CLIENTS]
    /\ UNCHANGED <<store, now, last, hist, recvd, glog, round>>

\* main, read path: recv returns the next n bytes, handle_client_data runs;
\* logged: the histories, of glog and io, that the receive adds to
RecvStep(i, n, logged) ==
    /\ i \in 1..Len(clients)
    /\ Space(clients[i]) > 0
    /\ n \in 1..Min(Space(clients[i]), Len(wire[i]))
    /\ LET data == SubSeq(wire[i], 1, n)
           h == handle_client_data(
                    [clients[i] EXCEPT !.input_buffer = @ \o data], store, now, <<>>)
       IN  /\ clients' = [clients EXCEPT ![i] = h.client]
           /\ store' = h.store
           /\ wire' = [wire EXCEPT ![i] = SubSeq(@, n + 1, Len(@))]
           /\ dlog' = [dlog EXCEPT ![i] = @ \o [k \in 1..Len(h.log) |-> h.log[k].args]]
           /\ recvd' = IF h.log = <<>> THEN NoReceive
                        ELSE [i |-> i, data |-> data, pre |-> clients[i], store |-> store,
                              t |-> now, log |-> h.log]
           /\ glog' = IF "glog" \in logged THEN glog \o [k \in 1..Len(h.log) |->
                                    [fd |-> clients[i].fd, args |-> h.log[k].args,
                                     reply |-> h.log[k].reply, t |-> now]]
                       ELSE glog
           /\ io' = IF "io" \in logged
                     THEN [io EXCEPT ![i].queued =
                              @ \o SubSeq(h.client.output_buffer,
                                          Len(clients[i].output_buffer) + 1,
                                          Len(h.client.output_buffer))]
                     ELSE io
    /\ UNCHANGED <<now, last, hist, sent, eof, lastAccept, round>>

Recv(i, n) == RecvStep(i, n, {})

\* main, read path: recv returns 0 or an error; the connection is closed and removed
RecvClose(i) ==
    /\ i \in 1..Len(clients)
    /\ Space(clients[i]) > 0
    /\ clients' = RemoveAt(clients, i - 1)
    /\ wire' = RemoveAt(wire, i - 1)
    /\ sent' = RemoveAt(sent, i - 1)
    /\ dlog' = RemoveAt(dlog, i - 1)
    /\ eof' = RemoveAt(eof, i - 1)
    /\ io' = RemoveAt(io, i - 1)
    /\ UNCHANGED <<store, now, last, hist, recvd, lastAccept, glog, round>>

\* the write path asking for write-readiness only while nothing of the
\* output buffer has been sent
SendStep_once(i, ret, logged) ==
    /\ i \in 1..Len(clients)
    /\ Len(clients[i].output_buffer) > clients[i].output_sent
    /\ clients[i].output_sent = 0
    /\ ret \in -1..(Len(clients[i].output_buffer) - clients[i].output_sent)
    /\ clients' = [clients EXCEPT ![i] = flush_client_output(@, ret)]
    /\ io' = IF logged
              THEN [io EXCEPT ![i].handed = @ \o SubSeq(clients[i].output_buffer, clients[i].output_sent + 1, clients[i].output_sent + ret),
                              ![i].ret = ret]
              ELSE io
    /\ UNCHANGED <<store, now, last, hist, wire, sent, dlog, recvd, eof, lastAccept, glog, round>>

\* main, write path: the socket was marked for writing and send returns ret,
\* the number of bytes it took, 0, or -1 for an error;
\* logged: the send is added to the history of the connection
SendStep(i, ret, logged) ==
    /\ i \in 1..Len(clients)
    /\ Len(clients[i].output_buffer) > clients[i].output_sent
    /\ ret \in -1..(Len(clients[i].output_buffer) - clients[i].output_sent)
    /\ clients' = [clients EXCEPT ![i] = flush_client_output(@, ret)]
    /\ io' = IF logged
              THEN [io EXCEPT ![i].handed =
                       @ \o SubSeq(clients[i].output_buffer, clients[i].output_sent + 1,
                                   clients[i].output_sent + ret),
                              ![i].ret = ret]
              ELSE io
    /\ UNCHANGED <<store, now, last, hist, wire, sent, dlog, recvd, eof, lastAccept, glog, round>>

\* main, write path: the socket is writable and send accepts some of the bytes
Flush(i, accepted) == accepted >= 1 /\ SendStep(i, accepted, FALSE)

NextNet ==
    \/ \E fd \in Peers, script \in Scripts : Accept(fd, script)
    \/ \E i \in 1..Len(clients), n \in 1..BUFFER_SIZE : Recv(i, n)
    \/ \E i \in 1..Len(clients) : RecvClose(i)
    \/ \E i \in 1..Len(clients), accepted \in {3, BUFFER_SIZE} :
          Flush(i, Min(accepted, Len(clients[i].output_buffer) - clients[i].output_sent))

SpecNet == Init /\ [][NextNet]_vars

(***************************************************************************)
(* production-redis.c's connections when a peer sends a malformed frame    *)
(*                                                                         *)
(* A peer connects and writes bytes that are no RESP command, followed by  *)
(* the encoding of a well-formed command.                                  *)
(***************************************************************************)
\* no leading '*'; argc = 0; argc above MAX_ARGS; no '$' marker; negative length
MalformedFrames ==
    {<<"G","E","T","\r","\n">>,
     <<"*","0","\r","\n">>,
     <<"*","3","3","\r","\n">>,
     <<"*","1","\r","\n","G","E","T","\r","\n">>,
     <<"*","1","\r","\n","$","-","1","\r","\n">>}

\* main, accept path: a peer connects that writes bytes before its script
AcceptRaw(fd, bytes, script) ==
    /\ \A i \in 1..Len(clients) : clients[i].fd # fd
    /\ IF Len(clients) < MAX_CLIENTS
       THEN /\ clients' = Append(clients, NewClient(fd))
            /\ wire' = Append(wire, bytes \o EncodeAll(script))
            /\ sent' = Append(sent, script)
            /\ dlog' = Append(dlog, <<>>)
            /\ eof' = Append(eof, FALSE)
            /\ io' = Append(io, NoIO)
       ELSE UNCHANGED <<clients, wire, sent, dlog, eof, io>>
    /\ lastAccept' = [fd |-> fd, pre |-> clients, added |-> Len(clients) < MAX_CLIENTS]
    /\ UNCHANGED <<store, now, last, hist, recvd, glog, round>>

NextMalformed ==
    \/ \E fd \in Peers, bytes \in MalformedFrames \cup {<<>>} :
          AcceptRaw(fd, bytes, <<<<GET, <<"a">>>>>>)
    \/ \E i \in 1..Len(clients), n \in 1..BUFFER_SIZE : Recv(i, n)
    \/ \E i \in 1..Len(clients) : RecvClose(i)
    \/ \E i \in 1..Len(clients), accepted \in {3, BUFFER_SIZE} :
          Flush(i, Min(accepted, Len(clients[i].output_buffer) - clients[i].output_sent))

SpecMalformed == Init /\ [][NextMalformed]_vars

(***************************************************************************)
(* production-redis.c's connection table under more peers than it holds    *)
(*                                                                         *)
(* Each peer writes one command, delivered in one piece and read back in   *)
(* one piece.                                                              *)
(***************************************************************************)
ManyPeers == 1..(MAX_CLIENTS + 1)

NextAccept ==
    \/ \E fd \in ManyPeers : Accept(fd, <<<<GET, <<"a">>>>>>)
    \/ \E i \in 1..Len(clients) : Recv(i, Len(wire[i]))
    \/ \E i \in 1..Len(clients) : RecvClose(i)
    \/ \E i \in 1..Len(clients) :
          Flush(i, Len(clients[i].output_buffer) - clients[i].output_sent)

SpecAccept == Init /\ [][NextAccept]_vars

(***************************************************************************)
(* production-redis.c's connections when the peer closes its end           *)
(*                                                                         *)
(* A peer connects, writes a whole command, the start of one, or two       *)
(* commands the decoder does not take, and closes.  select reports a       *)
(* socket with bytes or an end of stream to read in every round of the     *)
(* loop, and the loop visits every connection: a read that stays possible  *)
(* is eventually made.                                                     *)
(***************************************************************************)
\* the peer closes its end; the bytes it wrote can still be read
PeerClose(i) ==
    /\ i \in 1..Len(clients)
    /\ ~eof[i]
    /\ eof' = [eof EXCEPT ![i] = TRUE]
    /\ UNCHANGED <<store, now, last, hist, clients, wire, sent, dlog, recvd, lastAccept, glog, io, round>>

\* main, read path: recv returns 0 at the end of the stream
RecvEOF(i) ==
    /\ i \in 1..Len(clients)
    /\ eof[i]
    /\ wire[i] = <<>>
    /\ RecvClose(i)

PartialFrame == <<"*","2","\r","\n","$","3","\r","\n","G","E">>

LongSet == <<SET, <<"a">>, SubSeq(LongValue, 1, ARG_SIZE)>>

NextClose ==
    \/ \E fd \in Peers : \/ AcceptRaw(fd, <<>>, <<<<GET, <<"a">>>>>>)
                         \/ AcceptRaw(fd, PartialFrame, <<>>)
                         \/ AcceptRaw(fd, <<>>, <<LongSet, LongSet>>)
    \/ \E i \in 1..Len(clients), n \in 1..BUFFER_SIZE : Recv(i, n)
    \/ \E i \in 1..Len(clients) : PeerClose(i)
    \/ \E i \in 1..Len(clients) : RecvEOF(i)
    \/ \E i \in 1..Len(clients), accepted \in {3, BUFFER_SIZE} :
          Flush(i, Min(accepted, Len(clients[i].output_buffer) - clients[i].output_sent))

\* ENABLED <<\E n : Recv(i, n)>>_vars
CanRecv(i) == i \in 1..Len(clients) /\ Space(clients[i]) > 0 /\ wire[i] # <<>>

\* weak fairness of the two reads of every slot of the table; for the read
\* of bytes it is written out, with CanRecv for the ENABLED
SpecClose ==
    /\ Init
    /\ [][NextClose]_vars
    /\ \A i \in 1..MAX_CLIENTS :
           /\ WF_vars(RecvEOF(i))
           /\ \/ []<>(~CanRecv(i))
              \/ []<><<\E n \in 1..BUFFER_SIZE : Recv(i, n)>>_vars

(***************************************************************************)
(* production-redis.c's connections when a peer sends QUIT                 *)
(***************************************************************************)
QuitScripts ==
    {<<<<QUIT>>>>,
     <<<<QUIT>>, <<GET, <<"a">>>>>>,
     <<<<SET, <<"a">>, <<"x">>>>, <<<<"q","u","i","t">>>>>>}

NextQuit ==
    \/ \E fd \in Peers, script \in QuitScripts : Accept(fd, script)
    \/ \E i \in 1..Len(clients), n \in 1..BUFFER_SIZE : Recv(i, n)
    \/ \E i \in 1..Len(clients) : RecvClose(i)
    \/ \E i \in 1..Len(clients), accepted \in {3, BUFFER_SIZE} :
          Flush(i, Min(accepted, Len(clients[i].output_buffer) - clients[i].output_sent))

SpecQuit == Init /\ [][NextQuit]_vars

(***************************************************************************)
(* production-redis.c's connections when a peer sends commands that are    *)
(* answered with an error                                                  *)
(*                                                                         *)
(* The network delivers a peer's bytes one at a time or all at once.       *)
(***************************************************************************)
FOO == <<"F","O","O">>

ErrorScripts ==
    {<<<<GET>>>>, <<<<DEL>>>>, <<<<EXISTS>>>>, <<<<SET, <<"a">>>>>>, <<<<FOO>>>>,
     <<<<FOO>>, <<SET, <<"a">>, <<"x">>>>>>,
     <<<<SET, <<"a">>, <<"x">>>>, <<<<"s","e","t">>, <<"a">>>>>>,
     <<<<GET>>, <<GET>>>>}

NextErrors ==
    \/ \E fd \in Peers, script \in ErrorScripts : Accept(fd, script)
    \/ \E i \in 1..Len(clients), n \in {1, BUFFER_SIZE} :
          Recv(i, Min(n, Min(Space(clients[i]), Len(wire[i]))))
    \/ \E i \in 1..Len(clients) : RecvClose(i)
    \/ \E i \in 1..Len(clients), accepted \in {3, BUFFER_SIZE} :
          Flush(i, Min(accepted, Len(clients[i].output_buffer) - clients[i].output_sent))

SpecErrors == Init /\ [][NextErrors]_vars

(***************************************************************************)
(* production-redis.c's connections with two peers at once                 *)
(*                                                                         *)
(* Each peer connects once and stays; the network delivers its bytes Chunk *)
(* at a time or all at once; the commands dispatched are recorded in       *)
(* dispatch order.                                                         *)
(***************************************************************************)
Chunk == 16

TwoPeers == {1, 2}

MultiScripts ==
    {<<<<SET, <<"a">>, <<"x">>>>>>, <<<<GET, <<"a">>>>>>, <<<<DEL, <<"a">>>>>>,
     <<<<SET, <<"a">>, <<"y">>>>, <<GET, <<"a">>>>>>}

NextMulti ==
    \/ \E fd \in TwoPeers, script \in MultiScripts : Accept(fd, script)
    \/ \E i \in 1..Len(clients), n \in {Chunk, BUFFER_SIZE} :
          RecvStep(i, Min(n, Min(Space(clients[i]), Len(wire[i]))), {"glog"})
    \/ \E i \in 1..Len(clients) :
          Flush(i, Len(clients[i].output_buffer) - clients[i].output_sent)

SpecMulti == Init /\ [][NextMulti]_vars

(***************************************************************************)
(* production-redis.c's connections with the sends recorded                *)
(*                                                                         *)
(* The network delivers a peer's bytes Chunk at a time or all at once;     *)
(* send fails, takes nothing, takes three bytes or takes all there is.     *)
(***************************************************************************)
SendScripts ==
    {<<<<GET, <<"a">>>>>>,
     <<<<SET, <<"a">>, <<"x">>>>, <<GET, <<"a">>>>>>,
     <<<<GET>>, <<GET, <<"a">>>>>>,
     <<<<GET>>, <<GET>>>>}

NextSend ==
    \/ \E fd \in Peers, script \in SendScripts : Accept(fd, script)
    \/ \E i \in 1..Len(clients), n \in {Chunk, BUFFER_SIZE} :
          RecvStep(i, Min(n, Min(Space(clients[i]), Len(wire[i]))), {"io"})
    \/ \E i \in 1..Len(clients) : RecvClose(i)
    \/ \E i \in 1..Len(clients), ret \in {-1, 0, 3, BUFFER_SIZE} :
          SendStep(i, Min(ret, Len(clients[i].output_buffer) - clients[i].output_sent), TRUE)

SpecSend == Init /\ [][NextSend]_vars

(***************************************************************************)
(* Peers that write more than the input buffer holds                       *)
(***************************************************************************)
FillScripts ==
    {<<<<GET, <<"a">>>>, LongSet, LongSet>>,
     <<<<SET, <<"a">>, <<"x">>>>, <<GET, <<"a">>>>>>}

NextFill ==
    \/ \E fd \in Peers, script \in FillScripts : Accept(fd, script)
    \/ \E i \in 1..Len(clients), n \in {1, Chunk, BUFFER_SIZE} :
          Recv(i, Min(n, Min(Space(clients[i]), Len(wire[i]))))
    \/ \E i \in 1..Len(clients) : RecvClose(i)
    \/ \E i \in 1..Len(clients), accepted \in {3, BUFFER_SIZE} :
          Flush(i, Min(accepted, Len(clients[i].output_buffer) - clients[i].output_sent))

SpecFill == Init /\ [][NextFill]_vars

\* the peer of connection i takes at least one byte of what is offered to it
SendSome(i) ==
    \E ret \in {3, BUFFER_SIZE} :
        SendStep(i, Min(ret, Len(clients[i].output_buffer) - clients[i].output_sent), TRUE)

\* a connection with unsent output is in writefds in every round of the
\* loop, and a peer that keeps accepting bytes is reported writable
SpecSendFair == SpecSend /\ \A i \in 1..MAX_CLIENTS : WF_vars(SendSome(i))

(***************************************************************************)
(* One pass of main's loop over the whole table                            *)
(*                                                                         *)
(* readfds and writefds are the sets select has left, closing the sockets  *)
(* whose recv returns 0 or an error. recv returns what its peer has sent,  *)
(* Chunk bytes at most; send takes 3 bytes at most.                        *)
(***************************************************************************)
LoopPeers == 1..MAX_CLIENTS

LoopScripts == {<<<<GET, <<"a">>>>>>, <<<<SET, <<"a">>, <<"x">>>>>>}

Table == [clients |-> clients, wire |-> wire, sent |-> sent, dlog |-> dlog,
          eof |-> eof, io |-> io, store |-> store, handled |-> <<>>]

\* the read path finding the end of the stream or an error: close and memmove
remove_client(s, i) ==
    [s EXCEPT !.clients = RemoveAt(@, i), !.wire = RemoveAt(@, i),
              !.sent = RemoveAt(@, i), !.dlog = RemoveAt(@, i),
              !.eof = RemoveAt(@, i), !.io = RemoveAt(@, i)]

\* the read path after recv has returned n bytes and handle_client_data
\* has returned h
received(s, i, n, h) ==
    [s EXCEPT !.clients[i + 1] = h.client,
              !.store = h.store,
              !.wire[i + 1] = SubSeq(@, n + 1, Len(@)),
              !.dlog[i + 1] = @ \o [k \in 1..Len(h.log) |-> h.log[k].args]]

\* what recv returns to slot i
recv_client(s, i) ==
    SubSeq(s.wire[i + 1], 1, Min(Chunk, Min(Space(s.clients[i + 1]), Len(s.wire[i + 1]))))

\* the read path receiving bytes, if the socket is readable and the input
\* buffer has room: recv and handle_client_data
read_client(s, i, readable) ==
    IF ~readable THEN s
    ELSE received(s, i, Len(recv_client(s, i)),
                  handle_client_data(
                      [s.clients[i + 1] EXCEPT !.input_buffer = @ \o recv_client(s, i)],
                      s.store, now, <<>>))

\* the write path, if the socket is writable: flush_client_output
write_client(s, i, writable) ==
    IF ~writable THEN s ELSE
    [s EXCEPT !.clients[i + 1] =
        flush_client_output(@, Min(3, Len(@.output_buffer) - @.output_sent))]

\* the body of the loop going on to slot i + 1 after it has removed slot i
client_io_skip(s, i, readfds, closing, writefds) ==
    LET fd == s.clients[i + 1].fd
        readable == fd \in readfds /\ Space(s.clients[i + 1]) > 0
    IN  IF readable /\ fd \in closing
        THEN [s |-> remove_client(s, i), i |-> i + 1]
        ELSE [s |-> write_client(read_client(s, i, readable), i, fd \in writefds), i |-> i + 1]

\* main, client I/O: the body of the for loop for slot i (i counts from 0)
\* with the i++ that follows it; after a removal, i--, continue and i++
\* leave i as it is
client_io(s, i, readfds, closing, writefds) ==
    LET fd == s.clients[i + 1].fd
        readable == fd \in readfds /\ Space(s.clients[i + 1]) > 0
    IN  IF readable /\ fd \in closing
        THEN [s |-> remove_client(s, i), i |-> i]
        ELSE [s |-> write_client(read_client(s, i, readable), i, fd \in writefds), i |-> i + 1]

\* main, client I/O: the for loop from slot i on, keeping the descriptors
\* of the slots it looks at
\* (every turn removes a slot or moves on by one: there are no more turns
\* than the table has slots)
client_io_loop(s, i, readfds, closing, writefds) ==
    LET turn[k \in 0..Len(s.clients)] ==
            IF k = 0 THEN [s |-> s, i |-> i]
            ELSE IF turn[k - 1].i >= Len(turn[k - 1].s.clients) THEN turn[k - 1]
            ELSE client_io([turn[k - 1].s EXCEPT !.handled =
                               Append(@, turn[k - 1].s.clients[turn[k - 1].i + 1].fd)],
                           turn[k - 1].i, readfds, closing, writefds)
    IN  turn[Len(s.clients)].s

\* main: select returns with the sockets of readfds readable and those of
\* writefds writable, and the loop passes over the table
Round(readfds, closing, writefds) ==
    /\ readfds \cup writefds # {}
    /\ closing \subseteq readfds
    /\ \A fd \in readfds :
           \E i \in 1..Len(clients) :
               /\ clients[i].fd = fd
               /\ wire[i] # <<>> \/ fd \in closing
               /\ fd \in closing => Space(clients[i]) > 0
    /\ \A fd \in writefds :
           \E i \in 1..Len(clients) :
               clients[i].fd = fd /\ Len(clients[i].output_buffer) > clients[i].output_sent
    /\ \E s \in {client_io_loop(Table, 0, readfds, closing, writefds)} :
           /\ clients' = s.clients
           /\ wire' = s.wire
           /\ sent' = s.sent
           /\ dlog' = s.dlog
           /\ eof' = s.eof
           /\ io' = s.io
           /\ store' = s.store
           /\ round' = [readfds |-> readfds, closing |-> closing, writefds |-> writefds,
                        handled |-> s.handled]
    /\ recvd' = NoReceive
    /\ UNCHANGED <<now, last, hist, lastAccept, glog>>

NextLoop ==
    \/ \E fd \in LoopPeers, script \in LoopScripts : Accept(fd, script)
    \/ \E readfds \in SUBSET LoopPeers, closing \in SUBSET LoopPeers, writefds \in SUBSET LoopPeers :
          Round(readfds, closing, writefds)

SpecLoop == Init /\ [][NextLoop]_vars

(***************************************************************************)
(* Claims                                                                  *)
(***************************************************************************)
NoDuplicateKey(st) == \A i, j \in 1..Len(st) : i # j => st[i].key # st[j].key

\* C1, as stated: a GET k whose latest predecessor naming k is SET k v without
\* an EX option replies the bulk string v.
C1_RoundTrip ==
    \A k \in Keys :
        (IsGet(last.args) /\ last.args[2] = k /\ last.hist[k].set # <<>>)
            => last.reply = BulkFormat(last.hist[k].set[1])

\* C1, amended: the same, when the SET found an entry for k (live or expired)
\* or found the store below its capacity.
C1_RoundTripWithRoom ==
    \A k \in Keys :
        (IsGet(last.args) /\ last.args[2] = k /\ last.hist[k].set # <<>> /\ last.hist[k].room)
            => last.reply = BulkFormat(last.hist[k].set[1])

\* a GET answered from an entry that a SET overwrote while the store was full
C1_Witness ==
    \E k \in Keys :
        /\ IsGet(last.args) /\ last.args[2] = k
        /\ last.hist[k].set # <<>> /\ last.hist[k].room
        /\ Len(last.pre) = STORE_CAPACITY
        /\ last.reply = BulkFormat(last.hist[k].set[1])

\* C2: once DEL k is dispatched and until a SET k is, k has no entry, GET k
\* replies the null bulk and an EXISTS naming only such keys replies 0.
C2_DeletedStaysAbsent ==
    /\ \A k \in Keys : hist[k].deleted => ~HasEntry(store, k)
    /\ \A k \in Keys :
        (IsGet(last.args) /\ last.args[2] = k /\ last.hist[k].deleted) => last.reply = NullBulk
    /\ (IsExists(last.args) /\ \A i \in 2..Len(last.args) : last.hist[last.args[i]].deleted)
            => last.reply = IntFormat(0)

\* EXISTS k after DEL k removed a live entry of k, with other commands in between
C2_Witness ==
    \E k \in Keys :
        /\ last.args = <<EXISTS, k>>
        /\ last.hist[k].deleted
        /\ last.reply = IntFormat(0)
        /\ Len(last.pre) > 0

\* the arguments of the last command that name a live entry of the store it ran in
LiveArgs ==
    {i \in 2..Len(last.args) :
        \E j \in 1..Len(last.pre) : last.pre[j].key = last.args[i] /\ IsLive(last.pre[j], last.t)}

\* C3: GET replies a value only from an entry whose expiry is none or strictly
\* in the future, and replies it whenever the expiry is in the future; EXISTS
\* counts no other entry; SET with EX n, n > 0, stores the expiry now + n.
C3_NoExpiredValue ==
    /\ IsGet(last.args) =>
        /\ last.reply # NullBulk =>
              \E j \in 1..Len(last.pre) :
                  /\ last.pre[j].key = last.args[2]
                  /\ IsLive(last.pre[j], last.t)
                  /\ last.reply = BulkFormat(last.pre[j].value)
        /\ \A j \in 1..Len(last.pre) :
              (last.pre[j].key = last.args[2] /\ last.pre[j].ttl > last.t)
                  => last.reply = BulkFormat(last.pre[j].value)
    /\ IsExists(last.args) => \E n \in 0..Cardinality(LiveArgs) : last.reply = IntFormat(n)
    /\ (IsSet(last.args) /\ HasEX(last.args) /\ atoi(last.args[5]) > 0) =>
          \A j \in 1..Len(store) :
              store[j].key = last.args[2] => store[j].ttl = last.t + atoi(last.args[5])

\* GET of a key in the very second its entry expires
C3_Witness ==
    /\ IsGet(last.args)
    /\ \E j \in 1..Len(last.pre) :
          last.pre[j].key = last.args[2] /\ last.pre[j].ttl = last.t
    /\ last.reply = NullBulk

\* C5: no two entries of the store have the same key.
C5_UniqueKeys == NoDuplicateKey(store)

\* SET on a key whose entry had expired and was still in the store
C5_Witness ==
    /\ IsSet(last.args)
    /\ \E j \in 1..Len(last.pre) :
          /\ last.pre[j].key = last.args[2]
          /\ last.pre[j].ttl > 0 /\ last.pre[j].ttl <= last.t
    /\ HasEntry(store, last.args[2])
    /\ Len(store) = STORE_CAPACITY

\* C6: SET k v2 on a key with a live entry keeps the number of entries, the
\* position of k and every other entry, and makes v2 the value of k's entry.
C6_OverwriteInPlace ==
    IsSet(last.args) =>
        \A j \in 1..Len(last.pre) :
            (last.pre[j].key = last.args[2] /\ IsLive(last.pre[j], last.t)) =>
                /\ Len(store) = Len(last.pre)
                /\ store[j].key = last.args[2]
                /\ store[j].value = last.args[3]
                /\ \A i \in 1..Len(store) : i # j => store[i] = last.pre[i]
                /\ \A i \in 1..Len(store) : store[i].key = last.args[2] => i = j

\* SET changing the value of the first of two entries
C6_Witness ==
    /\ IsSet(last.args)
    /\ Len(last.pre) = 2
    /\ last.pre[1].key = last.args[2] /\ IsLive(last.pre[1], last.t)
    /\ last.pre[1].value # last.args[3]
    /\ store[1].value = last.args[3]

IsKeys(args) == Len(args) >= 1 /\ ToUpperStr(args[1]) = KEYS

\* mini-redis.c's find_key treats an entry as live through the second of its expiry
IsLiveMini(e, t) == e.ttl = 0 \/ e.ttl >= t

NamedKeys == {last.args[i] : i \in 2..Len(last.args)}

\* the store the last command ran in, without the entries of the keys it names
PreWithoutNamed ==
    LET Kept(e) == e.key \notin NamedKeys
    IN  SelectSeq(last.pre, Kept)

C9_DelCountsRemovedProduction ==
    IsDel(last.args) =>
        /\ last.reply = IntFormat(Cardinality(
               {j \in 1..Len(last.pre) :
                   last.pre[j].key \in NamedKeys /\ IsLive(last.pre[j], last.t)}))
        /\ store = PreWithoutNamed

C10_ExistsCountsAllProduction ==
    IsExists(last.args) => last.reply = IntFormat(Cardinality(LiveArgs))

\* the number of bytes connection i has received
Received(i) == Len(EncodeAll(sent[i])) - Len(wire[i])

\* the offset at which the n-th frame of connection i ends
FrameEnd(i, n) == Len(EncodeScript(sent[i], n))

\* the number of frames connection i has received in full
Complete(i) == Cardinality({n \in 1..Len(sent[i]) : FrameEnd(i, n) <= Received(i)})

\* C7: however the bytes of the encoded commands are split into receives, the
\* commands dispatched on a connection are exactly those whose frames have
\* arrived in full, once each, in order and with the arguments that were
\* encoded, and the input buffer holds exactly the bytes after the last of them.
C7_FragmentedDelivery ==
    \A i \in 1..Len(clients) :
        /\ dlog[i] = SubSeq(sent[i], 1, Complete(i))
        /\ clients[i].input_buffer =
               SubSeq(EncodeAll(sent[i]), FrameEnd(i, Complete(i)) + 1, Received(i))

ShortArgs(cmds) ==
    \A n \in 1..Len(cmds) : \A a \in 1..Len(cmds[n]) : Len(cmds[n][a]) < ARG_SIZE

\* the same for the connections whose commands have no argument of ARG_SIZE bytes or more
C7_FragmentedDeliveryShortArgs ==
    \A i \in 1..Len(clients) :
        ShortArgs(sent[i]) =>
            /\ dlog[i] = SubSeq(sent[i], 1, Complete(i))
            /\ clients[i].input_buffer =
                   SubSeq(EncodeAll(sent[i]), FrameEnd(i, Complete(i)) + 1, Received(i))

RECURSIVE Replies(_, _)
Replies(log, n) == IF n = 0 THEN <<>> ELSE Replies(log, n - 1) \o log[n].reply

\* the last receive brought exactly the frames of script to an empty input buffer
PipelinedReceive(script) ==
    /\ recvd.i # 0
    /\ Len(script) >= 2
    /\ recvd.pre.input_buffer = <<>>
    /\ recvd.data = EncodeAll(script)

\* the connection of the last receive has not been flushed or closed since
Untouched ==
    /\ recvd.i <= Len(clients)
    /\ clients[recvd.i].fd = recvd.pre.fd
    /\ clients[recvd.i].output_sent = recvd.pre.output_sent
    /\ clients[recvd.i].output_buffer # <<>>

\* C8: a receive that brings two or more complete commands (with arguments
\* the decoder accepts) to an empty input buffer dispatches each once, in
\* order, and appends their replies to the output buffer in that order.
C8_Pipelining ==
    \A script \in Scripts :
        (PipelinedReceive(script) /\ ShortArgs(script)) =>
            /\ [k \in 1..Len(recvd.log) |-> recvd.log[k].args] = script
            /\ Untouched =>
                   clients[recvd.i].output_buffer =
                       recvd.pre.output_buffer \o Replies(recvd.log, Len(recvd.log))

\* the same when the replies fit into the output buffer
C8_PipeliningWithRoom ==
    \A script \in Scripts :
        (PipelinedReceive(script) /\ ShortArgs(script)
            /\ Len(recvd.pre.output_buffer) + Len(Replies(recvd.log, Len(recvd.log)))
                   < BUFFER_SIZE) =>
            /\ [k \in 1..Len(recvd.log) |-> recvd.log[k].args] = script
            /\ Untouched =>
                   clients[recvd.i].output_buffer =
                       recvd.pre.output_buffer \o Replies(recvd.log, Len(recvd.log))

\* the bulk strings of the keys of st[i .. ] that match pattern, in store order
RECURSIVE MatchingBulks(_, _, _)
MatchingBulks(st, pattern, i) ==
    IF i > Len(st) THEN <<>>
    ELSE (IF KeysMatch(st[i].key, pattern) THEN BulkFormat(st[i].key) ELSE <<>>)
         \o MatchingBulks(st, pattern, i + 1)

MatchingKeys(st, pattern) == {i \in 1..Len(st) : KeysMatch(st[i].key, pattern)}

KeysPattern(args) == IF Len(args) >= 2 THEN args[2] ELSE Star

C11_KeysListsShortKeys ==
    (IsKeys(last.args)
        /\ \A i \in MatchingKeys(last.pre, KeysPattern(last.args)) :
               Len(BulkFormat(last.pre[i].key)) < KEY_RESPONSE_SIZE) =>
        last.reply = ArrayFormat(Cardinality(MatchingKeys(last.pre, KeysPattern(last.args))))
                         \o MatchingBulks(last.pre, KeysPattern(last.args), 1)

\* the store keeps the order of insertion: a command leaves the unexpired
\* entries it keeps in their order and puts a new entry behind them
C11_InsertionOrder ==
    [][\A i, j \in 1..Len(store) :
          (i < j /\ IsLiveMini(store[i], now) /\ \E m \in 1..Len(store') : store'[m].key = store[i].key) =>
              \A n \in 1..Len(store') : store'[n].key = store[j].key =>
                  \E m \in 1..(n - 1) : store'[m].key = store[i].key]_vars

\* the last command was a SET of a key without an entry, run with the store at capacity
SetAtCapacity ==
    /\ IsSet(last.args)
    /\ ~HasEntry(last.pre, last.args[2])
    /\ Len(last.pre) = STORE_CAPACITY

\* C12: the store never holds more entries than its capacity; a SET of a key
\* without an entry while the store is at capacity leaves the store as it
\* was (every entry, in its position) and replies +OK.
C12_CapacityBoundary ==
    /\ Len(store) <= STORE_CAPACITY
    /\ SetAtCapacity => (store = last.pre /\ last.reply = OK)

C12_Witness == SetAtCapacity /\ store = last.pre /\ last.reply = OK

IsPrefix(s, t) == Len(s) <= Len(t) /\ SubSeq(t, 1, Len(s)) = s

\* C13: between two steps of the event loop no connection's input buffer
\* begins with the complete frame of a command: handle_client_data has
\* decoded and dispatched every complete frame before it returns.
C13_NoCompleteFrameWaits ==
    \A i \in 1..Len(clients) : \A cmd \in NetCommands :
        ~IsPrefix(EncodeCommand(cmd), clients[i].input_buffer)

\* the same for commands whose arguments are all shorter than a slot of arg_storage
C13_NoShortFrameWaits ==
    \A i \in 1..Len(clients) : \A cmd \in NetCommands :
        ShortArgs(<<cmd>>) => ~IsPrefix(EncodeCommand(cmd), clients[i].input_buffer)

\* C14: a connection that is still open once its peer's bytes have all
\* arrived (a malformed frame, then a well-formed command) has dispatched
\* the well-formed command: the malformed frame was answered and skipped.
C14_MalformedRecovered ==
    \A i \in 1..Len(clients) : wire[i] = <<>> => dlog[i] = sent[i]

\* the same for a peer that sends the well-formed command only
C14_WellFormedDispatched ==
    \A i \in 1..Len(clients) :
        (wire[i] = <<>> /\ clients[i].input_buffer = <<>>) => dlog[i] = sent[i]

\* what the code does instead: the malformed frame gets no reply and stays
\* at the front of the input buffer
C14_MalformedStaysUnanswered ==
    \A i \in 1..Len(clients) :
        (wire[i] = <<>> /\ dlog[i] = <<>>) =>
            /\ clients[i].output_buffer = <<>>
            /\ \E m \in MalformedFrames : IsPrefix(m, clients[i].input_buffer)

\* C15: the connection of the last receive, while it is open and nothing of
\* its output has been sent since, holds in its output buffer what it held
\* before followed by the whole reply of every command the receive dispatched.
C15_NoReplyDropped ==
    (recvd.i # 0 /\ Untouched) =>
        clients[recvd.i].output_buffer =
            recvd.pre.output_buffer \o Replies(recvd.log, Len(recvd.log))

\* the same when the replies fit into what is left of the output buffer
C15_RepliesKeptWithRoom ==
    (recvd.i # 0 /\ Untouched
        /\ Len(recvd.pre.output_buffer) + Len(Replies(recvd.log, Len(recvd.log))) < BUFFER_SIZE) =>
        clients[recvd.i].output_buffer =
            recvd.pre.output_buffer \o Replies(recvd.log, Len(recvd.log))

\* C16: the table never holds more than MAX_CLIENTS connections, and a
\* socket accepted while it holds MAX_CLIENTS is not added: the accept
\* leaves the table, and with it every connection in it, as it was.
C16_ConnectionBound ==
    /\ [](Len(clients) <= MAX_CLIENTS)
    /\ [][(lastAccept' # lastAccept /\ Len(clients) >= MAX_CLIENTS) =>
              (clients' = clients /\ ~lastAccept'.added
               /\ \A i \in 1..Len(clients') : clients'[i].fd # lastAccept'.fd)]_vars

C16_Witness ==
    /\ lastAccept.fd # 0
    /\ Len(lastAccept.pre) = MAX_CLIENTS
    /\ ~lastAccept.added
    /\ clients = lastAccept.pre

InTable(fd) == \E i \in 1..Len(clients) : clients[i].fd = fd

PeerClosed(fd) == \E i \in 1..Len(clients) : clients[i].fd = fd /\ eof[i]

\* C17: a connection whose peer has closed is eventually removed from the table.
C17_ClosedEventually ==
    \A fd \in Peers : PeerClosed(fd) ~> ~InTable(fd)

\* the same for a connection whose input buffer has room for what its peer wrote
PeerClosedWithRoom(fd) ==
    \E i \in 1..Len(clients) :
        /\ clients[i].fd = fd
        /\ eof[i]
        /\ Len(clients[i].input_buffer) + Len(wire[i]) < BUFFER_SIZE - 1

C17_ClosedEventuallyWithRoom ==
    \A fd \in Peers : PeerClosedWithRoom(fd) ~> ~InTable(fd)

\* a connection whose peer has closed can be read, so that the end of the
\* stream is met
C17_CloseCanBeRead ==
    \A i \in 1..Len(clients) : eof[i] => Space(clients[i]) > 0

\* what the code does instead: a connection whose input buffer is full is
\* never read again and so never closed
C17_FullStaysOpen ==
    [][\A i \in 1..Len(clients) :
          Space(clients[i]) <= 0 =>
              (Len(clients') = Len(clients) /\ clients'[i].input_buffer = clients[i].input_buffer)]_vars

IsQuit(args) == Len(args) >= 1 /\ ToUpperStr(args[1]) = QUIT

\* C18: on no connection is a command dispatched after a QUIT.
C18_NothingAfterQuit ==
    \A i \in 1..Len(clients) : \A k \in 1..(Len(dlog[i]) - 1) : ~IsQuit(dlog[i][k])

\* the reply of QUIT is +OK
C18_QuitRepliesOK ==
    recvd.i # 0 => \A k \in 1..Len(recvd.log) : IsQuit(recvd.log[k].args) => recvd.log[k].reply = OK

\* what the code does instead: a connection leaves the table only when a
\* read on it returns no bytes, whether or not QUIT was dispatched on it
C18_ClosedByReadOnly ==
    [][Len(clients') < Len(clients) => \E i \in 1..Len(clients) : RecvClose(i)]_vars

KnownVerbs == {PING, SET, GET, DEL, EXISTS, AUTH, SELECT, INFO, CLIENT, COMMAND, QUIT}

\* too few arguments for SET, GET, DEL or EXISTS, or a verb process_command does not know
IsErrorCommand(args) ==
    \/ ToUpperStr(args[1]) = SET /\ Len(args) < 3
    \/ ToUpperStr(args[1]) \in {GET, DEL, EXISTS} /\ Len(args) < 2
    \/ ToUpperStr(args[1]) \notin KnownVerbs

IsErrorReply(reply) == IsPrefix(<<"-","E","R","R"," ">>, reply) /\ IsPrefix(CRLF, SubSeq(reply, Len(reply) - 1, Len(reply)))

\* the store that the commands log[1 .. n] leave when run one after another from st
RECURSIVE StoreAfter(_, _, _, _)
StoreAfter(st, t, log, n) ==
    IF n = 0 THEN st ELSE process_command(StoreAfter(st, t, log, n - 1), t, log[n].args).store

\* C19: a receive on an open connection dispatches every complete command
\* its peer has sent, also behind a command answered with an error; such a
\* command leaves the store as it was and its one error reply is in the
\* output buffer with the replies of the others, in order.
C19_ErrorReplyQueued ==
    (recvd.i # 0 /\ Untouched) =>
        /\ \A k \in 1..Len(recvd.log) :
               IsErrorCommand(recvd.log[k].args) =>
                   /\ IsErrorReply(recvd.log[k].reply)
                   /\ StoreAfter(recvd.store, recvd.t, recvd.log, k)
                          = StoreAfter(recvd.store, recvd.t, recvd.log, k - 1)
        /\ (wire[recvd.i] = <<>> => dlog[recvd.i] = sent[recvd.i])
        /\ clients[recvd.i].output_buffer =
               recvd.pre.output_buffer \o Replies(recvd.log, Len(recvd.log))

\* the same when the replies fit into what is left of the output buffer
C19_ErrorReplyQueuedWithRoom ==
    (recvd.i # 0 /\ Untouched
        /\ Len(recvd.pre.output_buffer) + Len(Replies(recvd.log, Len(recvd.log))) < BUFFER_SIZE) =>
        /\ \A k \in 1..Len(recvd.log) :
               IsErrorCommand(recvd.log[k].args) =>
                   /\ IsErrorReply(recvd.log[k].reply)
                   /\ StoreAfter(recvd.store, recvd.t, recvd.log, k)
                          = StoreAfter(recvd.store, recvd.t, recvd.log, k - 1)
        /\ (wire[recvd.i] = <<>> => dlog[recvd.i] = sent[recvd.i])
        /\ clients[recvd.i].output_buffer =
               recvd.pre.output_buffer \o Replies(recvd.log, Len(recvd.log))

\* the dispatcher alone: the command leaves the store as it was and
\* produces one error reply
C19_ErrorReplyProduced ==
    (last.args # <<>> /\ IsErrorCommand(last.args)) =>
        (store = last.pre /\ IsErrorReply(last.reply))

\* the store that the commands log[1 .. n], run one at a time from the
\* empty store, each at its own time, leave
RECURSIVE Serial(_, _)
Serial(log, n) ==
    IF n = 0 THEN <<>> ELSE process_command(Serial(log, n - 1), log[n].t, log[n].args).store

\* C20: the store is the one that the commands dispatched on all
\* connections leave when run one at a time in dispatch order, and every
\* reply is the one its command produces in that run.
C20_SerialOrder ==
    /\ store = Serial(glog, Len(glog))
    /\ \A k \in 1..Len(glog) :
           glog[k].reply = process_command(Serial(glog, k - 1), glog[k].t, glog[k].args).reply

\* a GET on one connection dispatched right after a SET of the key on the
\* other has observed it
C20_Witness ==
    \E k \in 1..(Len(glog) - 1) :
        /\ glog[k].fd # glog[k + 1].fd
        /\ IsSet(glog[k].args) /\ IsGet(glog[k + 1].args)
        /\ glog[k + 1].args[2] = glog[k].args[2]
        /\ glog[k + 1].reply = BulkFormat(glog[k].args[3])
        /\ Len(clients) = 2

\* the seconds a SET command asks for: the 5th argument after EX, else 0
SetSeconds(args) == IF HasEX(args) THEN atoi(args[5]) ELSE 0

\* C21: SET on a key with a live entry makes its 3rd argument the value of
\* the entry and overwrites the expiry: now + n with EX n, n > 0, and none
\* without EX or with EX 0; GET of a key whose entry has no expiry replies
\* its value whatever the time.
C21_SetOverwritesExpiry ==
    /\ IsSet(last.args) =>
           \A j \in 1..Len(last.pre) :
               (last.pre[j].key = last.args[2] /\ IsLive(last.pre[j], last.t)) =>
                   /\ store[j].value = last.args[3]
                   /\ SetSeconds(last.args) > 0 => store[j].ttl = last.t + SetSeconds(last.args)
                   /\ SetSeconds(last.args) = 0 => store[j].ttl = 0
    /\ IsGet(last.args) =>
           \A j \in 1..Len(last.pre) :
               (last.pre[j].key = last.args[2] /\ last.pre[j].ttl = 0) =>
                   last.reply = BulkFormat(last.pre[j].value)

\* SET without EX on a key whose entry had an expiry in the future
C21_Witness ==
    /\ IsSet(last.args) /\ ~HasEX(last.args)
    /\ \E j \in 1..Len(last.pre) :
           /\ last.pre[j].key = last.args[2]
           /\ last.pre[j].ttl > last.t
           /\ store[j].ttl = 0
           /\ store[j].value = last.args[3]

\* C22: no connection on which send has returned an error is in the table.
C22_SendErrorTearsDown ==
    \A i \in 1..Len(clients) : io[i].ret >= 0

\* what the code does instead: a send that returns an error leaves the
\* table and the connection as they were
C22_SendErrorIgnored ==
    [][\A i \in 1..Len(clients) :
          (Len(io') = Len(io) /\ io'[i].ret < 0 /\ io'[i].ret # io[i].ret) =>
              clients' = clients]_vars

\* the step is a send on connection i: its history of sends changes, the
\* bytes queued do not
IsSend(i) ==
    /\ Len(io') = Len(io)
    /\ i \in 1..Len(io)
    /\ io'[i].queued = io[i].queued
    /\ io'[i] # io[i]

Unsent(client) == Len(client.output_buffer) - client.output_sent

\* C23: a send that takes s bytes, 0 < s < output_len - output_sent, adds s
\* to output_sent and leaves the output buffer as it is; one that takes all
\* the bytes left makes output_sent 0 and the buffer empty; one that takes
\* nothing or fails leaves the connection as it is.
C23_SendAdvancesCursor ==
    [][\A i \in 1..Len(clients) :
          IsSend(i) =>
              LET s == io'[i].ret
              IN  /\ (0 < s /\ s < Unsent(clients[i])) =>
                         /\ clients'[i].output_sent = clients[i].output_sent + s
                         /\ clients'[i].output_buffer = clients[i].output_buffer
                  /\ s = Unsent(clients[i]) =>
                         /\ clients'[i].output_sent = 0
                         /\ clients'[i].output_buffer = <<>>
                  /\ s <= 0 => clients'[i] = clients[i]
                  /\ clients'[i].input_buffer = clients[i].input_buffer]_vars

\* a second partial send has moved output_sent on, and a send has failed since
C23_Witness ==
    \E i \in 1..Len(clients) :
        /\ clients[i].output_sent = 6
        /\ Len(io[i].handed) = 6
        /\ io[i].ret = -1

\* the connection of fd has queued bytes that were not handed to the socket
Pending(fd) ==
    \E i \in 1..Len(clients) : clients[i].fd = fd /\ io[i].handed # io[i].queued

\* C24: while a connection stays open and its peer keeps accepting bytes,
\* every byte queued in its output buffer is eventually handed to the socket.
C24_QueuedEventuallySent == \A fd \in Peers : Pending(fd) ~> ~Pending(fd)

\* a connection has handed over all it queued, in more than one send
C24_Witness ==
    \E i \in 1..Len(clients) :
        /\ Len(io[i].queued) > 3
        /\ io[i].handed = io[i].queued
        /\ clients[i].output_buffer = <<>>
        /\ io[i].ret \in 1..(Len(io[i].queued) - 1)

\* every entry of st is past its expiry time at t
AllExpired(st, t) == \A j \in 1..Len(st) : ~IsLive(st[j], t)

\* C25: an entry past its expiry time stays in the store through every
\* tick of the clock and every command that does not name its key, and it
\* counts toward the capacity: a SET of a key without an entry is dropped
\* when the store is at capacity and holds only expired entries.
C25_ExpiredKeepsSlot ==
    [][/\ \A j \in 1..Len(store) :
              (~IsLive(store[j], now) /\ (last' = last \/ ~Naming(last'.args, store[j].key)))
                  => \E m \in 1..Len(store') : store'[m] = store[j]
       /\ (/\ last' # last
           /\ IsSet(last'.args)
           /\ ~HasEntry(store, last'.args[2])
           /\ Len(store) = STORE_CAPACITY
           /\ AllExpired(store, now)) => store' = store]_vars

\* a SET of a new key was dropped by a store full of expired entries
C25_Witness ==
    /\ SetAtCapacity
    /\ AllExpired(last.pre, last.t)
    /\ store = last.pre

\* the step is a receive on connection i
IsRecv(i) ==
    /\ Len(clients') = Len(clients)
    /\ i \in 1..Len(clients)
    /\ Len(wire'[i]) < Len(wire[i])

\* the bytes this receive returns
RecvData(i) == SubSeq(wire[i], 1, Len(wire[i]) - Len(wire'[i]))

\* b is the beginning, and not the whole, of the frame of a command
ProperPrefixOfFrame(b) ==
    \E cmd \in NetCommands : IsPrefix(b, EncodeCommand(cmd)) /\ b # EncodeCommand(cmd)

\* C26: the bytes a receive returns are put behind those of the input
\* buffer, and what the decode loop leaves is what follows the frames it
\* took; when the bytes then in the buffer are the beginning and not the
\* whole of a well-formed frame, the loop dispatches nothing, queues no
\* reply and leaves the store and these bytes as they are.
C26_IncompleteKeepsBytes ==
    [][\A i \in 1..Len(clients) :
          IsRecv(i) =>
              LET buf == clients[i].input_buffer \o RecvData(i)
              IN  /\ \E k \in 0..Len(buf) :
                         clients'[i].input_buffer = SubSeq(buf, k + 1, Len(buf))
                  /\ ProperPrefixOfFrame(buf) =>
                         /\ clients'[i] = [clients[i] EXCEPT !.input_buffer = buf]
                         /\ store' = store
                         /\ dlog'[i] = dlog[i]]_vars

\* a connection holds the first bytes of its peer's frame and no more, and
\* nothing was dispatched for it
C26_Witness ==
    \E i \in 1..Len(clients) :
        /\ Len(clients[i].input_buffer) >= 2
        /\ wire[i] # <<>>
        /\ Len(sent[i]) = 1
        /\ clients[i].input_buffer \o wire[i] = EncodeAll(sent[i])
        /\ dlog[i] = <<>>
        /\ clients[i].output_buffer = <<>>

\* the bytes the commands log[1 .. n] took from the input buffer
RECURSIVE ConsumedBy(_, _)
ConsumedBy(log, n) == IF n = 0 THEN 0 ELSE ConsumedBy(log, n - 1) + log[n].consumed

\* the step is a receive on connection i that dispatched a command
IsDispatchingRecv(i) == IsRecv(i) /\ recvd'.i = i /\ recvd'.log # <<>>

\* C27: the consumed count of a decoded command is the length of its frame
\* (header, every $len line, every payload, both terminator bytes of each
\* argument); after the dispatch the input buffer is the previous one
\* without these bytes at its front, the others kept in order.
C27_ConsumedIsFrameLength ==
    [][\A i \in 1..Len(clients) :
          IsDispatchingRecv(i) =>
              LET buf == clients[i].input_buffer \o RecvData(i)
                  log == recvd'.log
                  total == ConsumedBy(log, Len(log))
              IN  /\ \A k \in 1..Len(log) :
                         /\ log[k].consumed = Len(EncodeCommand(log[k].args))
                         /\ SubSeq(buf, ConsumedBy(log, k - 1) + 1, ConsumedBy(log, k))
                                = EncodeCommand(log[k].args)
                         /\ log[k].len = Len(buf) - ConsumedBy(log, k - 1)
                  /\ clients'[i].input_buffer = SubSeq(buf, total + 1, Len(buf))]_vars

\* the last receive dispatched a command and left the first bytes of the
\* next frame in the input buffer
C27_Witness ==
    /\ recvd.i \in 1..Len(clients)
    /\ recvd.log # <<>>
    /\ recvd.pre.input_buffer # <<>>
    /\ clients[recvd.i].input_buffer # <<>>
    /\ clients[recvd.i].input_buffer =
           SubSeq(recvd.pre.input_buffer \o recvd.data,
                  ConsumedBy(recvd.log, Len(recvd.log)) + 1,
                  Len(recvd.pre.input_buffer) + Len(recvd.data))

\* C30: the input buffer of a connection never holds more than
\* BUFFER_SIZE - 1 bytes, and every command decoded takes at least one byte
\* and no more than the buffer holds, so that the buffer is shorter at each
\* turn of the decode loop that dispatches a command.
C30_InputBounds ==
    [][/\ \A i \in 1..Len(clients') : Len(clients'[i].input_buffer) <= BUFFER_SIZE - 1
       /\ \A i \in 1..Len(clients) :
              IsDispatchingRecv(i) =>
                  LET log == recvd'.log
                  IN  /\ \A k \in 1..Len(log) :
                             /\ 0 < log[k].consumed
                             /\ log[k].consumed <= log[k].len
                             /\ log[k].len <= BUFFER_SIZE - 1
                      /\ \A k \in 2..Len(log) : log[k].len < log[k - 1].len
                      /\ Len(clients'[i].input_buffer) < log[1].len]_vars

\* a connection on which a command was dispatched has a full input buffer
C30_Witness ==
    \E i \in 1..Len(clients) :
        /\ Len(clients[i].input_buffer) = BUFFER_SIZE - 1
        /\ dlog[i] # <<>>
        /\ wire[i] # <<>>

\* C28: on each connection the bytes handed to the socket so far are the
\* first bytes of the replies queued for it, in the order of queueing: no
\* byte is sent twice, left out or out of order, also when replies are
\* queued between two partial sends.
C28_SentIsPrefixOfQueued ==
    \A i \in 1..Len(clients) :
        /\ IsPrefix(io[i].handed, io[i].queued)
        /\ SubSeq(io[i].queued, Len(io[i].handed) + 1, Len(io[i].queued))
               = SubSeq(clients[i].output_buffer, clients[i].output_sent + 1,
                        Len(clients[i].output_buffer))

\* a reply was queued behind a partly sent one, and all was handed over since
C28_Witness ==
    /\ recvd.i \in 1..Len(clients)
    /\ recvd.log # <<>>
    /\ recvd.pre.output_sent > 0
    /\ Len(io[recvd.i].queued) > Len(recvd.pre.output_buffer)
    /\ io[recvd.i].handed = io[recvd.i].queued
    /\ clients[recvd.i].output_buffer = <<>>

\* C29: every connection has 0 <= output_sent <= output_len < BUFFER_SIZE,
\* and output_sent = output_len only when both are 0.
C29_OutputBounds ==
    \A i \in 1..Len(clients) :
        /\ 0 <= clients[i].output_sent
        /\ clients[i].output_sent <= Len(clients[i].output_buffer)
        /\ Len(clients[i].output_buffer) < BUFFER_SIZE
        /\ clients[i].output_sent = Len(clients[i].output_buffer) =>
               (clients[i].output_sent = 0 /\ clients[i].output_buffer = <<>>)

\* a reply found no room in the output buffer, and part of the buffer was sent
C29_Witness ==
    \E i \in 1..Len(clients) :
        /\ dlog[i] = <<<<GET>>, <<GET>>>>
        /\ io[i].queued = WrongArgs(<<"g","e","t">>)
        /\ clients[i].output_sent > 0

\* the descriptors of a table, in the order of its slots
Fds(cs) == [k \in 1..Len(cs) |-> cs[k].fd]

\* the slot of the connection of fd
Slot(cs, fd) == CHOOSE k \in 1..Len(cs) : cs[k].fd = fd

\* the step is a pass of the loop over the table
IsRound == round' # round

====
